---- MODULE Spec2Model ----
(***************************************************************************)
(* State coordinator of the MuteMe WebHID extension (background.js), the   *)
(* MuteMe driver (modules/muteme.js) and the per-tab call observers        *)
(* (content-scripts), as one state machine.                                *)
(*                                                                         *)
(* A handler of the service worker runs to completion, so every handler is *)
(* one action.  An async function is cut at its awaits: the part up to the *)
(* first await belongs to the calling handler, every continuation is an    *)
(* action of its own (query result, animation step, timer callback).       *)
(*                                                                         *)
(* Handlers are written as operators on a "world" record w, which holds    *)
(* the objects a handler can touch, so that a handler that calls another   *)
(* one is the composition of the two operators.                            *)
(***************************************************************************)
EXTENDS Integers, Sequences, FiniteSets, TLC

(***************************************************************************)
(* Bounds of the model                                                     *)
(***************************************************************************)
NumTabs == 2
MaxTimers == 2
MaxAsync == 1
MaxAnim == 2
MaxRender == 1
MaxConnect == 2
MaxPort == 2
MaxReply == 1

(***************************************************************************)
(* modules/constants.js                                                    *)
(***************************************************************************)
Null == "null"
True == "true"
False == "false"
Tri == {Null, True, False}

NoTab == 0
Tabs == 1..NumTabs

LED_COLOR == [OFF |-> 0, RED |-> 1, GREEN |-> 2, YELLOW |-> 3,
              BLUE |-> 4, PURPLE |-> 5, CYAN |-> 6, WHITE |-> 7]

LED_EFFECT == [SOLID |-> 0, DIM |-> 16, FAST_PULSE |-> 32, SLOW_PULSE |-> 48]

TOUCH_MODE == [TOGGLE |-> "toggle", PUSH_TO_TALK |-> "push-to-talk", SMART |-> "smart"]

TouchModes == {TOUCH_MODE.TOGGLE, TOUCH_MODE.PUSH_TO_TALK, TOUCH_MODE.SMART}

PLATFORM == [GOOGLE_MEET |-> "meet", MICROSOFT_TEAMS |-> "teams", UNKNOWN |-> "unknown"]

\* the message types the background broadcasts
MESSAGE ==
  [PERMISSION_GRANTED  |-> "muteme:permission-granted",
   DEVICE_CONNECTED    |-> "muteme:device-connected",
   DEVICE_DISCONNECTED |-> "muteme:device-disconnected",
   TOUCH_START         |-> "muteme:touch-start",
   TOUCH_END           |-> "muteme:touch-end",
   CALL_STARTED        |-> "muteme:call-started",
   CALL_ENDED          |-> "muteme:call-ended",
   MUTE_STATE_CHANGED  |-> "muteme:mute-state-changed",
   STATE_UPDATE        |-> "muteme:state-update"]

LED_PRESET ==
  [OFF                 |-> [color |-> LED_COLOR.OFF,    effect |-> LED_EFFECT.SOLID],
   CONNECTED_IDLE      |-> [color |-> LED_COLOR.OFF,    effect |-> LED_EFFECT.SOLID],
   MUTED               |-> [color |-> LED_COLOR.RED,    effect |-> LED_EFFECT.SOLID],
   MUTED_PTT_READY     |-> [color |-> LED_COLOR.RED,    effect |-> LED_EFFECT.SLOW_PULSE],
   UNMUTED             |-> [color |-> LED_COLOR.GREEN,  effect |-> LED_EFFECT.SOLID],
   PUSH_TO_TALK_ACTIVE |-> [color |-> LED_COLOR.GREEN,  effect |-> LED_EFFECT.FAST_PULSE],
   CONNECTING          |-> [color |-> LED_COLOR.CYAN,   effect |-> LED_EFFECT.FAST_PULSE],
   ERROR               |-> [color |-> LED_COLOR.YELLOW, effect |-> LED_EFFECT.FAST_PULSE]]

ICON_STATE == [DISCONNECTED |-> "disconnected", CONNECTED |-> "connected",
               MUTED |-> "muted", UNMUTED |-> "unmuted"]

\* the grace period of the push-to-talk timer and the tap threshold, in ms
PttGraceMs == 200
TapThresholdMs == 500

\* the platform a tab's content script reports: meet-controller.js reports
\* 'meet', teams-controller.js 'teams'; a further tab stands for a sender
\* whose platform the coordinator does not know
TabPlatform(t) ==
  IF t = 1 THEN PLATFORM.GOOGLE_MEET
  ELSE IF t = 2 THEN PLATFORM.MICROSOFT_TEAMS
  ELSE PLATFORM.UNKNOWN

(***************************************************************************)
(* State                                                                   *)
(***************************************************************************)
VARIABLES
  state,      \* background.js: the ExtensionState object
  muteme,     \* muteme.js: the driver singleton; opened is device.opened of
              \* the HIDDevice it holds
  plugged,    \* the device is physically present (navigator.hid.getDevices)
  elapsed,    \* Date.now() - muteme._touchStartTime, in ms (capped)
  timers,     \* pending setTimeout()s of the grace timer: {[id, left]}
  queryWait,  \* number of queryMuteState() calls scheduled by setTimeout(.., 300)
  queryRun,   \* queryRun[t]: executeScript(get*MuteState) in flight on tab t
  anim,       \* anim[pc]: playConnectAnimation() activations waiting at step pc
  led,        \* the last report written to the device (color + effect)
  icon,       \* icon.currentState
  shown,      \* what chrome.action displays: the icon, badge and title of
              \* one of the four icon states
  rendering,  \* Icon.setDisconnected() calls waiting in _setGrayscaleIcon
  grayscaleCache, \* icon.js: the grayscale images have been computed
  stored,     \* chrome.storage.local: the preferences saved, if any
  visible,    \* visible[t]: the page of tab t (or its picture-in-picture
              \* window) is visible
  hid,        \* navigator.hid exists
  ui,         \* popup.js: the popup is open, its port is in the clients of
              \* the background, its copy of the state, the messages posted
              \* to its port and the GET_STATE responses on their way to it
  connecting, \* MuteMe.connect() calls in progress: waiting for getDevices()
              \* (devices) and waiting for device.open() (open)
  obs,        \* obs[t]: isInCall / isMuted of the content script of tab t
  page,       \* page[t]: what the page of tab t shows: the microphone muted
              \* (true / false), no readable mute button (null), or the tab
              \* is closed ("gone")
  last,       \* history: the handler that ran last and what it emitted
  cycle,      \* history: the hold-to-talk cycle in progress
  muteSrc     \* history: the tab whose report or query set state.isMuted

vars == <<state, muteme, plugged, elapsed, timers, queryWait, queryRun, anim,
          led, icon, shown, rendering, grayscaleCache, stored, visible, hid,
          ui, connecting, obs, page, last, cycle, muteSrc>>

NoLed == 0 - 1

\* let state = {...} of background.js
InitialState ==
  [mutemeConnected |-> FALSE,
   activeCallTabId |-> NoTab,
   activePlatform  |-> Null,
   isMuted         |-> Null,
   touchMode       |-> TOUCH_MODE.TOGGLE,
   focusTabOnPress |-> FALSE,
   isHolding       |-> FALSE,
   pttActivated    |-> FALSE,
   pttTimer        |-> 0]

\* MuteMe.constructor
InitialMuteMe ==
  [isConnected |-> FALSE, device |-> FALSE, opened |-> FALSE,
   isTouching |-> FALSE, touchStartTime |-> FALSE]

\* let state = {...} of popup.js
PopupState ==
  [mutemeConnected |-> FALSE,
   activeCallTabId |-> NoTab,
   activePlatform  |-> Null,
   isMuted         |-> Null,
   touchMode       |-> TOUCH_MODE.TOGGLE,
   focusTabOnPress |-> FALSE]

\* no popup is open
PopupClosed ==
  [open |-> FALSE, linked |-> FALSE, state |-> PopupState, port |-> <<>>,
   reply |-> <<>>]

\* no connect() call is in progress
NoConnect == [devices |-> 0, open |-> 0]

\* let isInCall = false; let isMuted = null of the content scripts
InitialObserver == [isInCall |-> FALSE, isMuted |-> Null]

\* the objects a handler can read and write, and what it emitted so far
World ==
  [state |-> state, muteme |-> muteme, plugged |-> plugged, elapsed |-> elapsed,
   timers |-> timers,
   queryWait |-> queryWait, queryRun |-> queryRun, anim |-> anim,
   led |-> led, icon |-> icon, shown |-> shown, rendering |-> rendering,
   grayscaleCache |-> grayscaleCache, stored |-> stored, visible |-> visible,
   page |-> page, connecting |-> connecting, ui |-> ui,
   sent |-> <<>>, upd |-> FALSE, failed |-> FALSE, bcast |-> <<>>,
   focus |-> NoTab, reports |-> 0, told |-> <<>>]

(***************************************************************************)
(* Helpers                                                                 *)
(***************************************************************************)
\* JavaScript's !x and truthiness for a value that is null, true or false
Not(v) == IF v = True THEN False ELSE True
Truthy(v) == v = True

\* a closed tab: executeScript and sendMessage to it are rejected
Gone == "gone"
PageStates == {Null, True, False, Gone}

\* what the mute shortcut (Ctrl+D, Ctrl+Shift+M) does to the page
simulateMuteToggle(p) ==
  IF p = True THEN False ELSE IF p = False THEN True ELSE p

\* setMute(shouldMute) of the content scripts
setMute(p, shouldMute) ==
  IF p = Null THEN simulateMuteToggle(p)
  ELSE IF p # shouldMute THEN simulateMuteToggle(p)
  ELSE p

RECURSIVE SumOver(_, _)
SumOver(f, S) ==
  IF S = {} THEN 0
  ELSE LET x == CHOOSE y \in S : TRUE IN f[x] + SumOver(f, S \ {x})

TimerIds(ts) == {t.id : t \in ts}

\* the id setTimeout() returns: one that no pending timer and no stored id has
FreshTimerId(w) ==
  CHOOSE i \in 1..(MaxTimers + 1) :
    /\ i \notin TimerIds(w.timers)
    /\ i # w.state.pttTimer
    /\ \A j \in 1..(MaxTimers + 1) :
         (j \notin TimerIds(w.timers) /\ j # w.state.pttTimer) => i <= j

\* clearTimeout(id)
ClearTimeout(ts, id) == {t \in ts : t.id # id}

\* loadState: the preferences stored, if any, replace the defaults
loadState(w) ==
  IF w.stored.set
  THEN [w EXCEPT !.state.touchMode = w.stored.touchMode,
                 !.state.focusTabOnPress = w.stored.focusTabOnPress]
  ELSE w

\* a variant of saveState that writes the touch mode only
saveStateModeOnly(w) ==
  [w EXCEPT !.stored = [set |-> TRUE,
                        touchMode |-> w.state.touchMode,
                        focusTabOnPress |-> w.stored.focusTabOnPress]]

\* saveState: both preferences are written as they are now
saveState(w) ==
  [w EXCEPT !.stored = [set |-> TRUE,
                        touchMode |-> w.state.touchMode,
                        focusTabOnPress |-> w.state.focusTabOnPress]]

\* getPublicState
getPublicState(st) ==
  [mutemeConnected |-> st.mutemeConnected,
   activeCallTabId |-> st.activeCallTabId,
   activePlatform  |-> st.activePlatform,
   isMuted         |-> st.isMuted,
   touchMode       |-> st.touchMode,
   focusTabOnPress |-> st.focusTabOnPress]

\* the data of a message broadcast without data (data = null)
NoData == [null |-> TRUE]

\* broadcastMessage(type, data): the message posted to the clients
broadcastMessage(w, type, data) ==
  [w EXCEPT !.bcast = Append(@, [type |-> type, data |-> data]),
            !.ui.port = IF w.ui.linked
                        THEN Append(@, [type |-> type, data |-> data])
                        ELSE @]

\* a variant of PopupMerge that takes over the mute only
PopupMergeMute(st, data) ==
  [f \in DOMAIN st |->
     IF f = "isMuted" /\ f \in DOMAIN data THEN data[f] ELSE st[f]]

\* state = { ...state, ...data } of popup.js, for the fields of its state
PopupMerge(st, data) ==
  [f \in DOMAIN st |-> IF f \in DOMAIN data THEN data[f] ELSE st[f]]

\* handleMessage of popup.js: the data of a state message is merged into
\* the state; touch messages are ignored
PopupHandleMessage(st, message) ==
  IF /\ message.type \in {MESSAGE.STATE_UPDATE, MESSAGE.DEVICE_CONNECTED,
                          MESSAGE.DEVICE_DISCONNECTED, MESSAGE.MUTE_STATE_CHANGED,
                          MESSAGE.CALL_STARTED, MESSAGE.CALL_ENDED}
     /\ message.data # NoData
  THEN PopupMerge(st, message.data)
  ELSE st

(***************************************************************************)
(* muteme.js: LED                                                          *)
(***************************************************************************)
\* a variant of MuteMe.setLed that does not look at isConnected
setLedUnguarded(w, color, effect) ==
  IF w.plugged
  THEN [w EXCEPT !.led = color + effect, !.reports = @ + 1]
  ELSE w

\* MuteMe.setLed: nothing is sent unless connected; sendReport throws when
\* the device is gone, which is caught (returns false)
setLed(w, color, effect) ==
  IF ~w.muteme.isConnected \/ ~w.muteme.device THEN w
  ELSE IF w.muteme.opened
       THEN [w EXCEPT !.led = color + effect, !.reports = @ + 1]
       ELSE w

setLedSucceeds(w) == w.muteme.isConnected /\ w.muteme.device /\ w.muteme.opened

\* MuteMe.setLedPreset
setLedPreset(w, preset) == setLed(w, preset.color, preset.effect)

(***************************************************************************)
(* background.js: feedback                                                 *)
(***************************************************************************)
\* a faulty variant of LedPresetFor, which forgets the held button
LedPresetIgnoringHold(st) ==
  IF st.activeCallTabId = NoTab THEN LED_PRESET.CONNECTED_IDLE
  ELSE IF st.isMuted = True THEN
    IF st.touchMode = TOUCH_MODE.SMART \/ st.touchMode = TOUCH_MODE.PUSH_TO_TALK
    THEN LED_PRESET.MUTED_PTT_READY
    ELSE LED_PRESET.MUTED
  ELSE IF st.isMuted = False THEN LED_PRESET.UNMUTED
  ELSE LED_PRESET.CONNECTED_IDLE

\* the preset updateLed() selects
LedPresetFor(st) ==
  IF st.activeCallTabId = NoTab THEN LED_PRESET.CONNECTED_IDLE
  ELSE IF st.isHolding /\ st.isMuted = False THEN LED_PRESET.PUSH_TO_TALK_ACTIVE
  ELSE IF st.isMuted = True THEN
    IF st.touchMode = TOUCH_MODE.SMART \/ st.touchMode = TOUCH_MODE.PUSH_TO_TALK
    THEN LED_PRESET.MUTED_PTT_READY
    ELSE LED_PRESET.MUTED
  ELSE IF st.isMuted = False THEN LED_PRESET.UNMUTED
  ELSE LED_PRESET.CONNECTED_IDLE

updateLed(w) ==
  IF ~w.state.mutemeConnected THEN w
  ELSE [setLedPreset(w, LedPresetFor(w.state)) EXCEPT !.upd = setLedSucceeds(w)]

\* Icon.setMuteState
setMuteState(isMuted) ==
  IF isMuted = Null THEN ICON_STATE.CONNECTED
  ELSE IF isMuted = True THEN ICON_STATE.MUTED
  ELSE ICON_STATE.UNMUTED

\* Icon.setDisconnected: currentState is set at once; the gray icon, the
\* empty badge and the title are set after _setGrayscaleIcon has the images,
\* which it has at once when they are cached
setDisconnected(w) ==
  IF w.grayscaleCache
  THEN [w EXCEPT !.icon = ICON_STATE.DISCONNECTED, !.shown = ICON_STATE.DISCONNECTED]
  ELSE [w EXCEPT !.icon = ICON_STATE.DISCONNECTED, !.rendering = @ + 1]

\* Icon.setConnected, setMuted, setUnmuted: icon, badge and title are set
\* at once
setColorIcon(w, iconState) == [w EXCEPT !.icon = iconState, !.shown = iconState]

\* _setGrayscaleIcon got its images: the rest of setDisconnected runs
setDisconnectedDone(w) ==
  [w EXCEPT !.rendering = @ - 1,
            !.grayscaleCache = TRUE,
            !.shown = ICON_STATE.DISCONNECTED]

updateIcon(w) ==
  IF ~w.state.mutemeConnected THEN setDisconnected(w)
  ELSE IF w.state.activeCallTabId = NoTab THEN setColorIcon(w, ICON_STATE.CONNECTED)
  ELSE setColorIcon(w, setMuteState(w.state.isMuted))

\* playConnectAnimation up to its first await: the first cyan report is
\* written by the caller; the rest of the sequence continues at step 1
playConnectAnimation(w) ==
  IF ~w.state.mutemeConnected THEN w
  ELSE [setLed(w, LED_COLOR.CYAN, LED_EFFECT.SOLID) EXCEPT !.anim[1] = @ + 1]

\* a faulty variant of animationStep, which ends with the LED off
animationStepNoFallback(w, pc) ==
  LET w1 == [w EXCEPT !.anim[pc] = @ - 1] IN
  IF pc = 1 THEN [setLed(w1, LED_COLOR.OFF, LED_EFFECT.SOLID) EXCEPT !.anim[2] = @ + 1]
  ELSE IF pc = 2 THEN [setLed(w1, LED_COLOR.CYAN, LED_EFFECT.SOLID) EXCEPT !.anim[3] = @ + 1]
  ELSE IF pc = 3 THEN [setLed(w1, LED_COLOR.OFF, LED_EFFECT.SOLID) EXCEPT !.anim[4] = @ + 1]
  ELSE w1

\* one continuation of playConnectAnimation: off, cyan, off, updateLed()
animationStep(w, pc) ==
  LET w1 == [w EXCEPT !.anim[pc] = @ - 1] IN
  IF pc = 1 THEN [setLed(w1, LED_COLOR.OFF, LED_EFFECT.SOLID) EXCEPT !.anim[2] = @ + 1]
  ELSE IF pc = 2 THEN [setLed(w1, LED_COLOR.CYAN, LED_EFFECT.SOLID) EXCEPT !.anim[3] = @ + 1]
  ELSE IF pc = 3 THEN [setLed(w1, LED_COLOR.OFF, LED_EFFECT.SOLID) EXCEPT !.anim[4] = @ + 1]
  ELSE updateLed(w1)

(***************************************************************************)
(* background.js: mute command and mute query                              *)
(***************************************************************************)
\* a faulty variant of sendMuteCommand, which takes the command for done and
\* sets state.isMuted itself
sendMuteCommandOptimistic(w, shouldMute) ==
  LET tab == w.state.activeCallTabId
      cmd(via) == [tab |-> tab, mute |-> shouldMute, via |-> via]
  IN
  IF tab = NoTab THEN w
  ELSE IF w.state.activePlatform \in {PLATFORM.GOOGLE_MEET, PLATFORM.MICROSOFT_TEAMS}
  THEN IF w.page[tab] = Gone
       THEN [w EXCEPT !.sent = Append(@, cmd("script")), !.failed = TRUE,
                      !.state.isMuted = shouldMute]
       ELSE [w EXCEPT !.sent = Append(@, cmd("script")),
                      !.page[tab] = simulateMuteToggle(@),
                      !.queryWait = @ + 1,
                      !.state.isMuted = shouldMute]
  ELSE IF w.page[tab] = Gone
       THEN [w EXCEPT !.sent = Append(@, cmd("message")), !.failed = TRUE,
                      !.state.isMuted = shouldMute]
       ELSE [w EXCEPT !.sent = Append(@, cmd("message")),
                      !.page[tab] = setMute(@, shouldMute),
                      !.state.isMuted = shouldMute]

\* a faulty variant of sendMuteCommand, which lacks the guard on the active
\* call and attempts the delivery to no tab
sendMuteCommandUnguarded(w, shouldMute) ==
  LET tab == w.state.activeCallTabId
      cmd(via) == [tab |-> tab, mute |-> shouldMute, via |-> via]
  IN
  IF tab = NoTab
  THEN [w EXCEPT !.sent = Append(@, cmd("message")), !.failed = TRUE]
  ELSE IF w.state.activePlatform \in {PLATFORM.GOOGLE_MEET, PLATFORM.MICROSOFT_TEAMS}
  THEN IF w.page[tab] = Gone
       THEN [w EXCEPT !.sent = Append(@, cmd("script")), !.failed = TRUE]
       ELSE [w EXCEPT !.sent = Append(@, cmd("script")),
                      !.page[tab] = simulateMuteToggle(@),
                      !.queryWait = @ + 1]
  ELSE IF w.page[tab] = Gone
       THEN [w EXCEPT !.sent = Append(@, cmd("message")), !.failed = TRUE]
       ELSE [w EXCEPT !.sent = Append(@, cmd("message")),
                      !.page[tab] = setMute(@, shouldMute)]

\* a faulty variant of sendMuteCommand, which attempts a rejected delivery
\* a second time
sendMuteCommandRetrying(w, shouldMute) ==
  LET tab == w.state.activeCallTabId
      cmd(via) == [tab |-> tab, mute |-> shouldMute, via |-> via]
  IN
  IF tab = NoTab THEN w
  ELSE IF w.state.activePlatform \in {PLATFORM.GOOGLE_MEET, PLATFORM.MICROSOFT_TEAMS}
  THEN IF w.page[tab] = Gone
       THEN [w EXCEPT !.sent = Append(Append(@, cmd("script")), cmd("script")),
                      !.failed = TRUE]
       ELSE [w EXCEPT !.sent = Append(@, cmd("script")),
                      !.page[tab] = simulateMuteToggle(@),
                      !.queryWait = @ + 1]
  ELSE IF w.page[tab] = Gone
       THEN [w EXCEPT !.sent = Append(Append(@, cmd("message")), cmd("message")),
                      !.failed = TRUE]
       ELSE [w EXCEPT !.sent = Append(@, cmd("message")),
                      !.page[tab] = setMute(@, shouldMute)]

\* sendMuteCommand: dropped without an active call; on Meet and Teams the
\* toggle shortcut is injected into the tab and, once that returned, a state
\* query scheduled; otherwise a SET_MUTE message is sent to the tab.  A
\* closed tab rejects either, which is caught
sendMuteCommand(w, shouldMute) ==
  LET tab == w.state.activeCallTabId
      cmd(via) == [tab |-> tab, mute |-> shouldMute, via |-> via]
  IN
  IF tab = NoTab THEN w
  ELSE IF w.state.activePlatform \in {PLATFORM.GOOGLE_MEET, PLATFORM.MICROSOFT_TEAMS}
  THEN IF w.page[tab] = Gone
       THEN [w EXCEPT !.sent = Append(@, cmd("script")), !.failed = TRUE]
       ELSE [w EXCEPT !.sent = Append(@, cmd("script")),
                      !.page[tab] = simulateMuteToggle(@),
                      !.queryWait = @ + 1]
  ELSE IF w.page[tab] = Gone
       THEN [w EXCEPT !.sent = Append(@, cmd("message")), !.failed = TRUE]
       ELSE [w EXCEPT !.sent = Append(@, cmd("message")),
                      !.page[tab] = setMute(@, shouldMute)]

\* a variant of handleMuteStateChanged that takes the report of any tab
handleMuteStateChangedAnyTab(w, tabId, isMuted) ==
  broadcastMessage(
    updateLed(updateIcon([w EXCEPT !.state.isMuted = isMuted])),
    MESSAGE.MUTE_STATE_CHANGED, [tabId |-> tabId, isMuted |-> isMuted])

\* a variant of handleMuteStateChanged that recomputes the feedback before
\* it stores the value
handleMuteStateChangedStale(w, tabId, isMuted) ==
  IF w.state.activeCallTabId = tabId
  THEN broadcastMessage(
         [updateLed(updateIcon(w)) EXCEPT !.state.isMuted = isMuted],
         MESSAGE.MUTE_STATE_CHANGED, [tabId |-> tabId, isMuted |-> isMuted])
  ELSE w

\* handleMuteStateChanged
handleMuteStateChanged(w, tabId, isMuted) ==
  IF w.state.activeCallTabId = tabId
  THEN broadcastMessage(
         updateLed(updateIcon([w EXCEPT !.state.isMuted = isMuted])),
         MESSAGE.MUTE_STATE_CHANGED, [tabId |-> tabId, isMuted |-> isMuted])
  ELSE w

\* queryMuteState up to its await: the script is injected into the tab that
\* is active now
queryMuteState(w) ==
  LET w1 == [w EXCEPT !.queryWait = @ - 1] IN
  IF w.state.activeCallTabId = NoTab THEN w1
  ELSE IF w.state.activePlatform \in {PLATFORM.GOOGLE_MEET, PLATFORM.MICROSOFT_TEAMS}
  THEN [w1 EXCEPT !.queryRun[w.state.activeCallTabId] = @ + 1]
  ELSE w1

\* queryMuteState after its await: the result of the script run in tab t
queryMuteStateResult(w, t, result) ==
  LET w1 == [w EXCEPT !.queryRun[t] = @ - 1] IN
  IF result # Null /\ w.state.isMuted # result
  THEN handleMuteStateChanged(w1, w.state.activeCallTabId, result)
  ELSE w1

(***************************************************************************)
(* background.js: call sessions                                            *)
(***************************************************************************)
handleCallStarted(w, tabId, platform) ==
  broadcastMessage(
    updateLed(updateIcon([w EXCEPT !.state.activeCallTabId = tabId,
                                   !.state.activePlatform = platform])),
    MESSAGE.CALL_STARTED, [tabId |-> tabId, platform |-> platform])

\* a faulty variant of handleCallEnded, which does not compare the tab with
\* the tab of the active call
handleCallEndedAnyTab(w, tabId) ==
  broadcastMessage(
    updateLed(updateIcon([w EXCEPT !.state.activeCallTabId = NoTab,
                                   !.state.activePlatform = Null,
                                   !.state.isMuted = Null])),
    MESSAGE.CALL_ENDED, [tabId |-> tabId])

handleCallEnded(w, tabId) ==
  IF w.state.activeCallTabId = tabId
  THEN broadcastMessage(
         updateLed(updateIcon([w EXCEPT !.state.activeCallTabId = NoTab,
                                        !.state.activePlatform = Null,
                                        !.state.isMuted = Null])),
         MESSAGE.CALL_ENDED, [tabId |-> tabId])
  ELSE w

\* setupTabMonitoring, chrome.tabs.onRemoved
onTabRemoved(w, tabId) ==
  IF w.state.activeCallTabId = tabId THEN handleCallEnded(w, tabId) ELSE w

\* setupTabMonitoring, chrome.tabs.onUpdated with a url that is neither a
\* Meet call url nor a Teams url
onTabUpdated(w, tabId) ==
  IF w.state.activeCallTabId = tabId THEN handleCallEnded(w, tabId) ELSE w

(***************************************************************************)
(* content scripts: the observers                                          *)
(***************************************************************************)
\* checkMuteState: the value read is sent if it differs from isMuted, which
\* then holds it; o is the observer, out the messages sent
checkMuteState(o, newMuted) ==
  IF newMuted # o.isMuted
  THEN [o |-> [o EXCEPT !.isMuted = newMuted],
        out |-> <<[type |-> MESSAGE.MUTE_STATE_CHANGED, isMuted |-> newMuted]>>]
  ELSE [o |-> o, out |-> <<>>]

\* a variant of stopMuteMonitoring that keeps the last value sent
stopMuteMonitoringKeeping(o) == o

\* stopMuteMonitoring: the interval is cleared and isMuted forgotten
stopMuteMonitoring(o) == [o EXCEPT !.isMuted = Null]

\* checkCallState: on a change CALL_STARTED is sent and startMuteMonitoring
\* checks the mute state at once, or CALL_ENDED is sent and
\* stopMuteMonitoring runs
checkCallState(o, newInCall, newMuted, platform) ==
  IF newInCall = o.isInCall THEN [o |-> o, out |-> <<>>]
  ELSE IF newInCall
  THEN LET r == checkMuteState([o EXCEPT !.isInCall = TRUE], newMuted)
       IN [o |-> r.o,
           out |-> <<[type |-> MESSAGE.CALL_STARTED, platform |-> platform]>> \o r.out]
  ELSE [o |-> stopMuteMonitoring([o EXCEPT !.isInCall = FALSE]),
        out |-> <<[type |-> MESSAGE.CALL_ENDED, platform |-> platform]>>]

(***************************************************************************)
(* background.js: device callbacks                                         *)
(***************************************************************************)
onMutemeConnect(w) ==
  LET w1 == playConnectAnimation(updateIcon([w EXCEPT !.state.mutemeConnected = TRUE]))
  IN broadcastMessage(w1, MESSAGE.DEVICE_CONNECTED, getPublicState(w1.state))

onMutemeDisconnect(w) ==
  LET w1 == updateIcon([w EXCEPT !.state.mutemeConnected = FALSE,
                                 !.state.isHolding = FALSE,
                                 !.state.pttActivated = FALSE,
                                 !.state.pttTimer = 0,
                                 !.timers = ClearTimeout(@, w.state.pttTimer)])
  IN broadcastMessage(w1, MESSAGE.DEVICE_DISCONNECTED, getPublicState(w1.state))

\* focusMeetingTab: the content script of the tab is asked whether the page
\* is visible; only the Meet content script answers GET_VISIBILITY.  Without
\* the answer "visible" the tab is activated and its window focused, unless
\* the tab is gone
focusMeetingTab(w) ==
  LET tab == w.state.activeCallTabId
      answers == w.page[tab] # Gone /\ TabPlatform(tab) = PLATFORM.GOOGLE_MEET
  IN IF tab = NoTab THEN w
     ELSE IF answers /\ w.visible[tab] THEN w
     ELSE IF w.page[tab] = Gone THEN w
     ELSE [w EXCEPT !.focus = tab, !.visible[tab] = TRUE]

\* onTouchStart: in Smart and Push-to-Talk mode, when muted, the grace timer
\* is armed and its id stored
onTouchStart(w) ==
  LET w0 == [w EXCEPT !.state.isHolding = TRUE, !.state.pttActivated = FALSE]
      w1 == IF w0.state.focusTabOnPress /\ w0.state.activeCallTabId # NoTab
            THEN focusMeetingTab(w0) ELSE w0
      w2 == IF /\ w1.state.touchMode \in {TOUCH_MODE.SMART, TOUCH_MODE.PUSH_TO_TALK}
               /\ Truthy(w1.state.isMuted)
            THEN LET id == FreshTimerId(w1) IN
                 [w1 EXCEPT !.state.pttTimer = id,
                            !.timers = @ \cup {[id |-> id, left |-> PttGraceMs]}]
            ELSE w1
  IN broadcastMessage(w2, MESSAGE.TOUCH_START, NoData)

\* a faulty variant of pttTimerCallback, which unmutes without recording that
\* push-to-talk was activated
pttTimerCallbackUnarmed(w) ==
  IF w.state.isHolding /\ w.state.isMuted # False
  THEN updateLed(sendMuteCommand(w, False))
  ELSE w

\* the callback of the grace timer
pttTimerCallback(w) ==
  IF w.state.isHolding /\ w.state.isMuted # False
  THEN updateLed(sendMuteCommand([w EXCEPT !.state.pttActivated = TRUE], False))
  ELSE w

\* a faulty variant of onTouchEnd, whose Smart branch toggles on every tap,
\* whether or not push-to-talk was activated
onTouchEndTapFirst(w, event) ==
  LET wasPttActivated == w.state.pttActivated
      w1 == [w EXCEPT !.state.isHolding = FALSE,
                      !.state.pttActivated = FALSE,
                      !.state.pttTimer = 0,
                      !.timers = ClearTimeout(@, w.state.pttTimer)]
  IN
  broadcastMessage(
  IF w1.state.touchMode = TOUCH_MODE.TOGGLE THEN
    IF event.isTap THEN sendMuteCommand(w1, Not(w1.state.isMuted)) ELSE w1
  ELSE IF w1.state.touchMode = TOUCH_MODE.SMART THEN
    updateLed(IF event.isTap
              THEN sendMuteCommand(w1, Not(w1.state.isMuted))
              ELSE IF wasPttActivated THEN sendMuteCommand(w1, True)
              ELSE w1)
  ELSE IF w1.state.touchMode = TOUCH_MODE.PUSH_TO_TALK THEN
    updateLed(IF wasPttActivated THEN sendMuteCommand(w1, True) ELSE w1)
  ELSE w1,
  MESSAGE.TOUCH_END, event)

\* onTouchEnd({duration, isTap})
onTouchEnd(w, event) ==
  LET wasPttActivated == w.state.pttActivated
      w1 == [w EXCEPT !.state.isHolding = FALSE,
                      !.state.pttActivated = FALSE,
                      !.state.pttTimer = 0,
                      !.timers = ClearTimeout(@, w.state.pttTimer)]
  IN
  broadcastMessage(
  IF w1.state.touchMode = TOUCH_MODE.TOGGLE THEN
    IF event.isTap THEN sendMuteCommand(w1, Not(w1.state.isMuted)) ELSE w1
  ELSE IF w1.state.touchMode = TOUCH_MODE.SMART THEN
    updateLed(IF event.isTap /\ ~wasPttActivated
              THEN sendMuteCommand(w1, Not(w1.state.isMuted))
              ELSE IF wasPttActivated THEN sendMuteCommand(w1, True)
              ELSE w1)
  ELSE IF w1.state.touchMode = TOUCH_MODE.PUSH_TO_TALK THEN
    updateLed(IF wasPttActivated THEN sendMuteCommand(w1, True) ELSE w1)
  ELSE w1,
  MESSAGE.TOUCH_END, event)

(***************************************************************************)
(* muteme.js: the driver                                                   *)
(***************************************************************************)
\* a faulty variant of IsTap, which counts the threshold itself as a tap
IsTapInclusive(duration) == duration <= TapThresholdMs

\* isTap: touchDuration < 500
IsTap(duration) == duration < TapThresholdMs

\* _handleInputReport, START_TOUCH
handleStartTouch(w) ==
  onTouchStart([w EXCEPT !.muteme.isTouching = TRUE,
                         !.muteme.touchStartTime = TRUE,
                         !.elapsed = 0])

\* the duration _handleInputReport measures at END_TOUCH
TouchDuration(w) == IF w.muteme.touchStartTime THEN w.elapsed ELSE 0

\* _handleInputReport, END_TOUCH
handleEndTouch(w) ==
  LET wasTouching == w.muteme.isTouching
      touchDuration == TouchDuration(w)
      w1 == [w EXCEPT !.muteme.isTouching = FALSE,
                      !.muteme.touchStartTime = FALSE,
                      !.elapsed = 0]
  IN IF wasTouching
     THEN onTouchEnd(w1, [duration |-> touchDuration, isTap |-> IsTap(touchDuration)])
     ELSE w1

\* MuteMe.connect, the catch block: the attempt failed
connectFailed(w) ==
  [w EXCEPT !.muteme.device = FALSE, !.muteme.isConnected = FALSE]

\* MuteMe.connect after the device is open: the input report listener is
\* added to this.device, which throws if another call's catch block has set
\* it to null meanwhile; otherwise isConnected is set and onConnect called
connectEstablished(w) ==
  IF ~w.muteme.device THEN connectFailed(w)
  ELSE onMutemeConnect([w EXCEPT !.muteme.isConnected = TRUE])

\* MuteMe.connect up to its first await: nothing to do if connected,
\* otherwise getDevices() is awaited
connectCall(w) ==
  IF w.muteme.isConnected /\ w.muteme.device THEN w
  ELSE [w EXCEPT !.connecting.devices = @ + 1]

\* MuteMe.connect resumed with the device list: without the device it
\* returns false; otherwise it takes the device and, unless the device is
\* open already, calls device.open(), which is rejected at once while
\* another open() of the device is in progress
connectDevices(w) ==
  LET w1 == [w EXCEPT !.connecting.devices = @ - 1] IN
  IF ~w.plugged THEN w1
  ELSE LET w2 == [w1 EXCEPT !.muteme.device = TRUE] IN
       IF w2.muteme.opened THEN connectEstablished(w2)
       ELSE IF w2.connecting.open > 0 THEN connectFailed(w2)
       ELSE [w2 EXCEPT !.connecting.open = @ + 1]

\* MuteMe.connect resumed by device.open(): resolved (ok) or rejected
connectOpened(w, ok) ==
  LET w1 == [w EXCEPT !.connecting.open = @ - 1] IN
  IF ok THEN connectEstablished([w1 EXCEPT !.muteme.opened = TRUE])
  ELSE connectFailed(w1)

\* what onDeviceConnect of the permission page passes to
\* chrome.runtime.sendMessage: the message type itself, a string
PermissionGrantedMessage == [isObject |-> FALSE, text |-> MESSAGE.PERMISSION_GRANTED]

\* const { type, data } = message: the type property of an object; a string
\* has none
MessageType(message) ==
  IF message.isObject THEN message.type ELSE "undefined"

\* handleMessage, case PERMISSION_GRANTED: muteme.connect() is called and
\* not awaited; any other type falls through the switch here
handlePermissionMessage(w, message) ==
  IF MessageType(message) = MESSAGE.PERMISSION_GRANTED THEN connectCall(w) ELSE w

\* MuteMe.connect run from call to return with nothing in between, for a
\* device that opens
connect(w) ==
  IF w.muteme.isConnected /\ w.muteme.device THEN w
  ELSE IF ~w.plugged THEN w
  ELSE IF w.connecting.open > 0 /\ ~w.muteme.opened THEN connectFailed(w)
  ELSE onMutemeConnect([w EXCEPT !.muteme.device = TRUE,
                                 !.muteme.opened = TRUE,
                                 !.muteme.isConnected = TRUE])

\* MuteMe._handleDisconnect
handleDisconnect(w) ==
  IF w.muteme.isConnected
  THEN onMutemeDisconnect([w EXCEPT !.muteme.device = FALSE,
                                    !.muteme.opened = FALSE,
                                    !.muteme.isConnected = FALSE,
                                    !.muteme.isTouching = FALSE])
  ELSE w

\* a faulty variant of checkDeviceStatus, which only looks for a device that
\* went away
checkDeviceStatusGoneOnly(w) ==
  IF w.state.mutemeConnected /\ ~w.plugged
  THEN onMutemeDisconnect([w EXCEPT !.muteme.device = FALSE,
                                    !.muteme.opened = FALSE,
                                    !.muteme.isConnected = FALSE])
  ELSE w

\* checkDeviceStatus (background.js)
checkDeviceStatus(w) ==
  LET wasConnected == w.state.mutemeConnected
      isAvailable == w.plugged
  IN IF wasConnected /\ ~isAvailable
     THEN onMutemeDisconnect([w EXCEPT !.muteme.device = FALSE,
                                       !.muteme.opened = FALSE,
                                       !.muteme.isConnected = FALSE])
     ELSE IF ~wasConnected /\ isAvailable THEN connect(w)
     ELSE IF wasConnected /\ isAvailable /\ w.muteme.device
     THEN IF ~w.muteme.opened THEN connect(w) ELSE w
     ELSE w

\* the service worker is started anew: its memory is as constructed and
\* nothing scheduled survives; initialize() reads the preferences back from
\* storage (loadState) and connects to a device that is available, or else
\* shows the disconnected icon
initialize(w) ==
  LET w1 == loadState([w EXCEPT !.state = InitialState,
                                !.muteme = InitialMuteMe,
                                !.elapsed = 0,
                                !.timers = {},
                                !.queryWait = 0,
                                !.queryRun = [t \in Tabs |-> 0],
                                !.anim = [pc \in 1..4 |-> 0],
                                !.icon = ICON_STATE.DISCONNECTED,
                                !.rendering = 0,
                                !.connecting = NoConnect,
                                !.ui.linked = FALSE,
                                !.grayscaleCache = FALSE])
  IN IF w1.plugged THEN connect(w1) ELSE setDisconnected(w1)

(***************************************************************************)
(* Time                                                                    *)
(***************************************************************************)
\* the durations the model tells apart
TimePoints == {PttGraceMs - 50, PttGraceMs, PttGraceMs + 50,
               TapThresholdMs - 1, TapThresholdMs}

Min(a, b) == IF a <= b THEN a ELSE b

\* the steps by which time may advance: to the next duration of interest or
\* to the expiry of a timer, and never past the expiry of a pending timer
Deltas ==
  {d \in {g - elapsed : g \in {p \in TimePoints : muteme.touchStartTime /\ p > elapsed}}
         \cup {t.left : t \in {u \in timers : u.left > 0}} :
     \A t \in timers : d <= t.left}

advance(w, d) ==
  [w EXCEPT !.elapsed = IF w.muteme.touchStartTime
                        THEN Min(@ + d, TapThresholdMs) ELSE @,
            !.timers = {[id |-> t.id, left |-> t.left - d] : t \in @}]

(***************************************************************************)
(* History                                                                 *)
(***************************************************************************)
\* the hold-to-talk cycle after handler ev took the world to w.  "armed": a
\* press, of a button that was up and with no other timer pending, armed the
\* grace timer in a call, and since then only time passed; "fired": that
\* timer fired, and since then only time passed and mute observations came
\* in; "tapped" and "talked": the state right after the release of an armed
\* and of a fired cycle; "abandoned": the device was disconnected while the
\* button was held and no press came since; "discarded": the state right
\* after the release report of an abandoned hold; "none": anything else
CycleAfter(ev, w) ==
  IF ev = "touchStart" THEN
    IF /\ ~muteme.isTouching /\ ~state.isHolding /\ timers = {}
       /\ state.activeCallTabId # NoTab
       /\ w.timers # {}
    THEN "armed" ELSE "none"
  ELSE IF state.mutemeConnected /\ ~w.state.mutemeConnected /\ state.isHolding
  THEN "abandoned"
  ELSE IF cycle = "abandoned" THEN
    IF ev \in {"touchEnd", "touchEndIgnored"} THEN "discarded"
    ELSE IF ev = "restart" THEN "none"
    ELSE "abandoned"
  ELSE IF cycle = "armed" THEN
    IF ev = "advance" THEN "armed"
    ELSE IF ev = "pttTimer" THEN "fired"
    ELSE IF ev = "touchEnd" THEN "tapped"
    ELSE IF w.sent = <<>> /\ w.state = state /\ w.muteme = muteme /\ w.plugged = plugged
    THEN "armed" ELSE "none"
  ELSE IF cycle = "fired" THEN
    IF ev = "advance" THEN "fired"
    ELSE IF ev = "touchEnd" THEN "talked"
    ELSE IF /\ w.sent = <<>> /\ w.muteme = muteme /\ w.plugged = plugged
            /\ [w.state EXCEPT !.isMuted = state.isMuted] = state
    THEN "fired" ELSE "none"
  ELSE "none"

\* the tab whose observation state.isMuted holds, after an observation of
\* tab x was applied or something else happened
MuteSrcAfter(ev, x, w) ==
  IF w.state.isMuted = Null THEN NoTab
  ELSE IF ev = "muteReport" /\ state.activeCallTabId = x THEN x
  ELSE IF ev = "queryResult" /\ w.state.isMuted # state.isMuted THEN x
  ELSE muteSrc

WithinBounds(w) ==
  /\ w.queryWait + SumOver(w.queryRun, Tabs) <= MaxAsync
  /\ SumOver(w.anim, 1..4) <= MaxAnim
  /\ Cardinality(w.timers) <= MaxTimers
  /\ w.rendering <= MaxRender
  /\ w.connecting.devices + w.connecting.open <= MaxConnect
  /\ Len(w.ui.port) <= MaxPort
  /\ Len(w.ui.reply) <= MaxReply

\* a variant of the init guard that calls initialize() without looking at
\* navigator.hid
DispatchAlways(w0) == w0

\* the module's init guard: without navigator.hid initialize() is not called,
\* so no listener is registered and no handler runs: of the world w0 that
\* a handler would produce, only what the user, the device and the pages did
\* themselves takes place
Dispatch(w0) ==
  IF hid THEN w0
  ELSE [World EXCEPT !.plugged = w0.plugged, !.page = w0.page,
                     !.visible = w0.visible]

\* the step of handler ev (of tab x, if of a tab) that takes the world to
\* w0; dur is the duration a release measured
Apply(ev, x, dur, w0) ==
  LET w == Dispatch(w0) IN
  /\ WithinBounds(w)
  /\ state' = w.state
  /\ muteme' = w.muteme
  /\ plugged' = w.plugged
  /\ elapsed' = w.elapsed
  /\ timers' = w.timers
  /\ queryWait' = w.queryWait
  /\ queryRun' = w.queryRun
  /\ anim' = w.anim
  /\ led' = w.led
  /\ icon' = w.icon
  /\ shown' = w.shown
  /\ rendering' = w.rendering
  /\ grayscaleCache' = w.grayscaleCache
  /\ stored' = w.stored
  /\ visible' = w.visible
  /\ hid' = hid
  /\ connecting' = w.connecting
  /\ ui' = w.ui
  /\ page' = w.page
  /\ last' = [ev |-> ev, tab |-> x, dur |-> dur, sent |-> w.sent, upd |-> w.upd,
              failed |-> w.failed, bcast |-> w.bcast, focus |-> w.focus,
              reports |-> w.reports, told |-> w.told]
  /\ cycle' = CycleAfter(ev, w)
  /\ muteSrc' = MuteSrcAfter(ev, x, w)

(***************************************************************************)
(* Init                                                                    *)
(***************************************************************************)
\* the memory of the service worker as constructed, nothing plugged in, no
\* page in a call, nothing stored
Constructed ==
  /\ state = InitialState
  /\ muteme = InitialMuteMe
  /\ plugged = FALSE
  /\ elapsed = 0
  /\ timers = {}
  /\ queryWait = 0
  /\ queryRun = [t \in Tabs |-> 0]
  /\ anim = [pc \in 1..4 |-> 0]
  /\ led = NoLed
  /\ icon = ICON_STATE.DISCONNECTED
  /\ obs = [t \in Tabs |-> InitialObserver]
  /\ page = [t \in Tabs |-> Null]
  /\ rendering = 0
  /\ connecting = NoConnect
  /\ ui = PopupClosed
  /\ stored = [set |-> FALSE, touchMode |-> TOUCH_MODE.TOGGLE, focusTabOnPress |-> FALSE]
  /\ visible = [t \in Tabs |-> TRUE]
  /\ last = [ev |-> "init", tab |-> NoTab, dur |-> 0, sent |-> <<>>, upd |-> FALSE,
             failed |-> FALSE, bcast |-> <<>>, focus |-> NoTab, reports |-> 0,
             told |-> <<>>]
  /\ cycle = "none"
  /\ muteSrc = NoTab

\* navigator.hid exists: initialize() has run with no device available, and
\* the disconnected icon it sets has been rendered
Init ==
  /\ Constructed
  /\ hid = TRUE
  /\ shown = ICON_STATE.DISCONNECTED
  /\ grayscaleCache = TRUE

\* navigator.hid does not exist: the module has logged the error and done
\* nothing else; the browser shows the icon of the manifest
InitNoHid ==
  /\ Constructed
  /\ hid = FALSE
  /\ shown = "default"
  /\ grayscaleCache = FALSE

(***************************************************************************)
(* Actions: the device                                                     *)
(***************************************************************************)
\* the device is plugged in / pulled out
Plug ==
  /\ ~plugged
  /\ Apply("plug", NoTab, 0, [World EXCEPT !.plugged = TRUE])
  /\ UNCHANGED obs

Unplug ==
  /\ plugged
  /\ Apply("unplug", NoTab, 0, [World EXCEPT !.plugged = FALSE,
                                             !.muteme.opened = FALSE])
  /\ UNCHANGED obs

\* connect() called by initialize, by PERMISSION_GRANTED or by the
\* reconnect that the HID connect event schedules
Connect ==
  /\ hid
  /\ plugged /\ ~muteme.isConnected
  /\ Apply("connect", NoTab, 0, connect(World))
  /\ UNCHANGED obs

\* the permission page (muteme-test.js) has connected to the device itself
\* and notifies the background: onDeviceConnect
PermissionGranted ==
  /\ hid
  /\ plugged
  /\ Apply("permissionGranted", NoTab, 0,
           handlePermissionMessage(World, PermissionGrantedMessage))
  /\ UNCHANGED obs

\* connect() is called (by initialize, by PERMISSION_GRANTED, by the
\* reconnect that the HID connect event schedules or by the poll) and runs
\* up to its first await
ConnectCall ==
  /\ hid
  /\ ~(muteme.isConnected /\ muteme.device)
  /\ Apply("connectCall", NoTab, 0, connectCall(World))
  /\ UNCHANGED obs

\* getDevices() resolves for one of the connect() calls waiting for it
ConnectDevices ==
  /\ connecting.devices > 0
  /\ Apply("connectDevices", NoTab, 0, connectDevices(World))
  /\ UNCHANGED obs

\* device.open() resolves, or it rejects (the device is gone or cannot be
\* opened)
ConnectOpened(ok) ==
  /\ connecting.open > 0
  /\ ok => plugged
  /\ Apply("connectOpened", NoTab, 0, connectOpened(World, ok))
  /\ UNCHANGED obs

\* the HID disconnect event of the device
HidDisconnect ==
  /\ ~plugged /\ muteme.isConnected
  /\ Apply("hidDisconnect", NoTab, 0, handleDisconnect(World))
  /\ UNCHANGED obs

\* the 2 s poll, when there is something for it to find
Poll ==
  /\ hid
  /\ \/ state.mutemeConnected # plugged
     \/ muteme.device /\ ~muteme.opened
  /\ Apply("poll", NoTab, 0, checkDeviceStatus(World))
  /\ UNCHANGED obs

\* input reports of the opened device: the button goes down
StartTouch ==
  /\ muteme.isConnected /\ muteme.device /\ muteme.opened
  /\ ~muteme.isTouching
  /\ Apply("touchStart", NoTab, 0, handleStartTouch(World))
  /\ UNCHANGED obs

\* a START_TOUCH report while the driver still counts the button as touched
\* (no END_TOUCH report came in between)
StartTouchAgain ==
  /\ muteme.isConnected /\ muteme.device /\ muteme.opened
  /\ muteme.isTouching
  /\ Apply("touchStart", NoTab, 0, handleStartTouch(World))
  /\ UNCHANGED obs

EndTouch ==
  /\ muteme.isConnected /\ muteme.device /\ muteme.opened
  /\ Apply(IF muteme.isTouching THEN "touchEnd" ELSE "touchEndIgnored",
           NoTab, TouchDuration(World), handleEndTouch(World))
  /\ UNCHANGED obs

\* time passes
Advance ==
  \E d \in Deltas :
    /\ Apply("advance", NoTab, 0, advance(World, d))
    /\ UNCHANGED obs

\* a grace timer expires
PttTimer ==
  \E t \in timers :
    /\ t.left = 0
    /\ Apply("pttTimer", NoTab, 0, pttTimerCallback([World EXCEPT !.timers = @ \ {t}]))
    /\ UNCHANGED obs

\* _setGrayscaleIcon of a pending Icon.setDisconnected() has its images
GrayscaleDone ==
  /\ rendering > 0
  /\ Apply("grayscaleDone", NoTab, 0, setDisconnectedDone(World))
  /\ UNCHANGED obs

\* a continuation of the connect animation
Animation ==
  \E pc \in 1..4 :
    /\ anim[pc] > 0
    /\ Apply("animation", NoTab, 0, animationStep(World, pc))
    /\ UNCHANGED obs

(***************************************************************************)
(* Actions: the pages, the call observers and the tabs                     *)
(***************************************************************************)
\* checkCallState of the content script of tab t finds a call: CALL_STARTED
CallStarted(t) ==
  /\ ~obs[t].isInCall
  /\ page[t] # Gone
  /\ obs' = [obs EXCEPT ![t].isInCall = TRUE]
  /\ Apply("callStarted", t, 0, handleCallStarted(World, t, TabPlatform(t)))

\* the page leaves the call and checkCallState finds the call gone:
\* CALL_ENDED, stopMuteMonitoring
CallEnded(t) ==
  /\ obs[t].isInCall
  /\ obs' = [obs EXCEPT ![t] = InitialObserver]
  /\ Apply("callEnded", t, 0, handleCallEnded([World EXCEPT !.page[t] = Null], t))

\* the microphone button of the call page changes (the user clicks it, or
\* it becomes unreadable); no handler of the extension runs
PageMute(t, v) ==
  /\ obs[t].isInCall
  /\ page[t] # Gone
  /\ v # page[t]
  /\ UNCHANGED obs
  /\ Apply("pageMute", t, 0, [World EXCEPT !.page[t] = v])

\* checkMuteState reads a value that differs from the last one sent:
\* MUTE_STATE_CHANGED
MuteReport(t, v) ==
  /\ obs[t].isInCall
  /\ v = page[t]
  /\ v # obs[t].isMuted
  /\ obs' = [obs EXCEPT ![t].isMuted = v]
  /\ Apply("muteReport", t, 0, handleMuteStateChanged(World, t, v))

\* the user hides the page of tab t (another tab or window covers it) or
\* brings it back
TabVisibility(t, v) ==
  /\ page[t] # Gone
  /\ v # visible[t]
  /\ UNCHANGED obs
  /\ Apply("tabVisibility", t, 0, [World EXCEPT !.visible[t] = v])

\* the tab is closed: its content script is gone with it
TabClosed(t) ==
  /\ page[t] # Gone
  /\ obs' = [obs EXCEPT ![t] = InitialObserver]
  /\ Apply("tabClosed", t, 0, [World EXCEPT !.page[t] = Gone])

\* chrome.tabs.onRemoved for the closed tab
TabRemoved(t) ==
  /\ page[t] = Gone
  /\ UNCHANGED obs
  /\ Apply("tabRemoved", t, 0, onTabRemoved(World, t))

\* chrome.tabs.onUpdated with a new url that is not a call url
TabUpdated(t) ==
  /\ page[t] # Gone
  /\ UNCHANGED obs
  /\ Apply("tabUpdated", t, 0, onTabUpdated([World EXCEPT !.page[t] = Null], t))

(***************************************************************************)
(* Actions: the UI                                                         *)
(***************************************************************************)
\* handleMessage, TOGGLE_MUTE
ToggleMute ==
  /\ Apply("toggleMute", NoTab, 0, sendMuteCommand(World, Not(state.isMuted)))
  /\ UNCHANGED obs

\* handleMessage, SET_MUTE
SetMute(v) ==
  /\ Apply("setMute", NoTab, 0, sendMuteCommand(World, v))
  /\ UNCHANGED obs

\* handleMessage for the messages a content script sent, in their order
Deliver(w, t, out) ==
  LET handle(w1, m) ==
        IF m.type = MESSAGE.CALL_STARTED THEN handleCallStarted(w1, t, m.platform)
        ELSE IF m.type = MESSAGE.CALL_ENDED THEN handleCallEnded(w1, t)
        ELSE handleMuteStateChanged(w1, t, m.isMuted)
      w2 == IF Len(out) >= 1 THEN handle(w, out[1]) ELSE w
      w3 == IF Len(out) >= 2 THEN handle(w2, out[2]) ELSE w2
  IN [w3 EXCEPT !.told = out]

\* checkCallState of the content script of tab t runs (1 s interval or DOM
\* mutation) and finds the page in a call or not, its microphone button
\* showing pg: a page that is not in a call has no button, a page that has
\* joined a call shows any of the three, and a page still in the call shows
\* what it showed
ObserveCall(t, newInCall, pg) ==
  /\ page[t] # Gone
  /\ ~newInCall => pg = Null
  /\ (newInCall /\ obs[t].isInCall) => pg = page[t]
  /\ LET r == checkCallState(obs[t], newInCall, pg, TabPlatform(t))
     IN /\ obs' = [obs EXCEPT ![t] = r.o]
        /\ Apply("observeCall", t, 0, Deliver([World EXCEPT !.page[t] = pg], t, r.out))

\* checkMuteState of the content script of tab t runs (500 ms interval or
\* DOM mutation while in a call) and reads the microphone button
ObserveMute(t) ==
  /\ page[t] # Gone
  /\ obs[t].isInCall
  /\ LET r == checkMuteState(obs[t], page[t])
     IN /\ obs' = [obs EXCEPT ![t] = r.o]
        /\ Apply("observeMute", t, 0, Deliver(World, t, r.out))

\* the popup is opened: init() connects its port, the onConnect listener of
\* the background adds the port to the clients and posts the state to it
PopupOpen ==
  /\ hid
  /\ ~ui.open
  /\ LET w1 == [World EXCEPT !.ui = [PopupClosed EXCEPT !.open = TRUE, !.linked = TRUE]]
     IN Apply("popupOpen", NoTab, 0,
              broadcastMessage(w1, MESSAGE.STATE_UPDATE, getPublicState(w1.state)))
  /\ UNCHANGED obs

\* the popup is closed: its port disconnects and the background deletes it
\* from the clients
PopupClose ==
  /\ ui.open
  /\ Apply("popupClose", NoTab, 0, [World EXCEPT !.ui = PopupClosed])
  /\ UNCHANGED obs

\* a message posted to the port reaches the popup: handleMessage of popup.js
PopupReceive ==
  /\ ui.open
  /\ ui.port # <<>>
  /\ Apply("popupReceive", NoTab, 0,
           [World EXCEPT !.ui.state = PopupHandleMessage(@, Head(ui.port)),
                         !.ui.port = Tail(@)])
  /\ UNCHANGED obs

\* refreshState of popup.js (at init and every second) up to its await:
\* handleMessage of the background answers GET_STATE with getPublicState()
PopupRefresh ==
  /\ hid
  /\ ui.open
  /\ Apply("popupRefresh", NoTab, 0,
           [World EXCEPT !.ui.reply = Append(@, getPublicState(state))])
  /\ UNCHANGED obs

\* the response reaches refreshState, which merges it into the state
PopupReply ==
  /\ ui.open
  /\ ui.reply # <<>>
  /\ Apply("popupReply", NoTab, 0,
           [World EXCEPT !.ui.state = PopupMerge(@, Head(ui.reply)),
                         !.ui.reply = Tail(@)])
  /\ UNCHANGED obs

\* handleMessage, SET_LED
SetLed(color, effect) ==
  /\ Apply("setLed", NoTab, 0,
           IF state.mutemeConnected THEN setLed(World, color, effect) ELSE World)
  /\ UNCHANGED obs

\* handleMessage, SET_TOUCH_MODE; the popup that sent it has set the mode
\* in its own state (handleTouchModeChange)
SetTouchMode(mode) ==
  /\ mode # state.touchMode
  /\ LET w0 == [World EXCEPT !.ui.state.touchMode = IF ui.open THEN mode ELSE @]
         w1 == updateLed(saveState([w0 EXCEPT !.state.touchMode = mode]))
     IN Apply("setTouchMode", NoTab, 0,
              broadcastMessage(w1, MESSAGE.STATE_UPDATE, getPublicState(w1.state)))
  /\ UNCHANGED obs

\* handleMessage, SET_FOCUS_TAB; the popup that sent it has set the flag in
\* its own state (handleFocusTabChange)
SetFocusTab(enabled) ==
  /\ enabled # state.focusTabOnPress
  /\ LET w0 == [World EXCEPT !.ui.state.focusTabOnPress = IF ui.open THEN enabled ELSE @]
         w1 == saveState([w0 EXCEPT !.state.focusTabOnPress = enabled])
     IN Apply("setFocusTab", NoTab, 0,
              broadcastMessage(w1, MESSAGE.STATE_UPDATE, getPublicState(w1.state)))
  /\ UNCHANGED obs

(***************************************************************************)
(* Actions: the mute query                                                 *)
(***************************************************************************)
\* the 300 ms timer of sendMuteCommand expires: queryMuteState()
QueryStart ==
  /\ queryWait > 0
  /\ Apply("queryStart", NoTab, 0, queryMuteState(World))
  /\ UNCHANGED obs

\* the script injected into tab t returns what it read from the page; a
\* closed tab rejects it, which is caught like an unreadable page
QueryResult(t, result) ==
  /\ queryRun[t] > 0
  /\ result = IF page[t] = Gone THEN Null ELSE page[t]
  /\ Apply("queryResult", t, 0, queryMuteStateResult(World, t, result))
  /\ UNCHANGED obs

(***************************************************************************)
(* Actions: the service worker                                             *)
(***************************************************************************)
\* the service worker was suspended and is started anew
Restart ==
  /\ Apply("restart", NoTab, 0, initialize([World EXCEPT !.muteme.opened = FALSE]))
  /\ UNCHANGED obs

(***************************************************************************)
(* Specifications                                                          *)
(***************************************************************************)
\* the whole extension
Next ==
  \/ GrayscaleDone
  \/ PopupOpen
  \/ PopupClose
  \/ PopupReceive
  \/ PopupRefresh
  \/ PopupReply
  \/ PermissionGranted
  \/ \E t \in Tabs, newInCall \in BOOLEAN, pg \in Tri : ObserveCall(t, newInCall, pg)
  \/ \E t \in Tabs : ObserveMute(t)
  \/ \E color \in {LED_COLOR.BLUE, LED_COLOR.WHITE} : SetLed(color, LED_EFFECT.SOLID)
  \/ ConnectCall
  \/ ConnectDevices
  \/ \E ok \in BOOLEAN : ConnectOpened(ok)
  \/ \E enabled \in BOOLEAN : SetFocusTab(enabled)
  \/ \E t \in Tabs, v \in BOOLEAN : TabVisibility(t, v)
  \/ Plug
  \/ Unplug
  \/ Connect
  \/ HidDisconnect
  \/ Poll
  \/ StartTouch
  \/ StartTouchAgain
  \/ EndTouch
  \/ Advance
  \/ PttTimer
  \/ Animation
  \/ Restart
  \/ \E t \in Tabs : CallStarted(t)
  \/ \E t \in Tabs : CallEnded(t)
  \/ \E t \in Tabs, v \in Tri : PageMute(t, v)
  \/ \E t \in Tabs, v \in Tri : MuteReport(t, v)
  \/ \E t \in Tabs : TabClosed(t)
  \/ \E t \in Tabs : TabRemoved(t)
  \/ \E t \in Tabs : TabUpdated(t)
  \/ ToggleMute
  \/ \E v \in {True, False} : SetMute(v)
  \/ \E mode \in TouchModes : SetTouchMode(mode)
  \/ QueryStart
  \/ \E t \in Tabs, result \in Tri : QueryResult(t, result)

Spec == Init /\ [][Next]_vars

\* the call sessions of all tabs, the UI commands and the mute query, with
\* no device attached
NextSession ==
  \/ \E t \in Tabs : CallStarted(t)
  \/ \E t \in Tabs : CallEnded(t)
  \/ \E t \in Tabs, v \in Tri : PageMute(t, v)
  \/ \E t \in Tabs, v \in Tri : MuteReport(t, v)
  \/ \E t \in Tabs : TabClosed(t)
  \/ \E t \in Tabs : TabRemoved(t)
  \/ \E t \in Tabs : TabUpdated(t)
  \/ ToggleMute
  \/ \E v \in {True, False} : SetMute(v)
  \/ QueryStart
  \/ \E t \in Tabs, result \in Tri : QueryResult(t, result)

SpecSession == Init /\ [][NextSession]_vars

\* the device, once attached, with the gestures, the UI and one meeting tab
MeetTab == CHOOSE t \in Tabs : TabPlatform(t) = PLATFORM.GOOGLE_MEET

NextGesture ==
  \/ Plug
  \/ Connect
  \/ Animation
  \/ StartTouch
  \/ EndTouch
  \/ Advance
  \/ PttTimer
  \/ CallStarted(MeetTab)
  \/ CallEnded(MeetTab)
  \/ \E v \in Tri : PageMute(MeetTab, v)
  \/ \E v \in Tri : MuteReport(MeetTab, v)
  \/ ToggleMute
  \/ \E v \in {True, False} : SetMute(v)
  \/ \E mode \in TouchModes : SetTouchMode(mode)
  \/ QueryStart
  \/ \E result \in Tri : QueryResult(MeetTab, result)

SpecGesture == Init /\ [][NextGesture]_vars

\* the device coming and going, by HID events and by the poll, under one
\* meeting tab in every touch mode
NextDevice ==
  \/ Plug
  \/ Unplug
  \/ Connect
  \/ HidDisconnect
  \/ Poll
  \/ Animation
  \/ StartTouch
  \/ StartTouchAgain
  \/ EndTouch
  \/ Advance
  \/ CallStarted(MeetTab)
  \/ \E mode \in TouchModes : SetTouchMode(mode)
  \/ QueryStart
  \/ \E result \in Tri : QueryResult(MeetTab, result)

SpecDevice == Init /\ [][NextDevice]_vars

\* the device, once attached, delivering every report it can, a repeated
\* START_TOUCH included, under one meeting tab; the continuations of the
\* connect animation, which only write the LED, are left pending
NextTimers ==
  \/ Plug
  \/ Connect
  \/ StartTouch
  \/ StartTouchAgain
  \/ EndTouch
  \/ Advance
  \/ PttTimer
  \/ CallStarted(MeetTab)
  \/ \E v \in {True, False} : PageMute(MeetTab, v)
  \/ \E v \in {True, False} : MuteReport(MeetTab, v)
  \/ \E mode \in TouchModes : SetTouchMode(mode)
  \/ QueryStart
  \/ \E result \in Tri : QueryResult(MeetTab, result)

SpecTimers == Init /\ [][NextTimers]_vars

\* the device coming and going while the button is pressed, a repeated
\* START_TOUCH included, in a call whose mute state is reported; the
\* continuations of the connect animation, which only write the LED, are
\* left pending
NextHold ==
  \/ Plug
  \/ Unplug
  \/ Connect
  \/ HidDisconnect
  \/ Poll
  \/ StartTouch
  \/ StartTouchAgain
  \/ EndTouch
  \/ CallStarted(MeetTab)
  \/ \E v \in Tri : PageMute(MeetTab, v)
  \/ \E v \in Tri : MuteReport(MeetTab, v)
  \/ \E mode \in TouchModes : SetTouchMode(mode)
  \/ \E enabled \in BOOLEAN : SetFocusTab(enabled)

SpecHold == Init /\ [][NextHold]_vars

\* the connect animation running while the device comes and goes, the
\* button is pressed and a call starts and reports its mute state
NextAnimation ==
  \/ Plug
  \/ Unplug
  \/ Connect
  \/ HidDisconnect
  \/ Poll
  \/ Animation
  \/ StartTouch
  \/ EndTouch
  \/ CallStarted(MeetTab)
  \/ \E v \in Tri : PageMute(MeetTab, v)
  \/ \E v \in Tri : MuteReport(MeetTab, v)
  \/ \E mode \in TouchModes : SetTouchMode(mode)

SpecAnimation == Init /\ [][NextAnimation]_vars

\* the icon, while the service worker restarts, the device comes and goes
\* and a call starts and reports its mute state
NextIcon ==
  \/ Restart
  \/ Plug
  \/ Unplug
  \/ Connect
  \/ HidDisconnect
  \/ Poll
  \/ Animation
  \/ GrayscaleDone
  \/ CallStarted(MeetTab)
  \/ CallEnded(MeetTab)
  \/ \E v \in Tri : PageMute(MeetTab, v)
  \/ \E v \in Tri : MuteReport(MeetTab, v)

SpecIcon == Init /\ [][NextIcon]_vars

\* the button pressed with calls in the tabs of both platforms, shown or
\* hidden, and the focus preference set and unset
NextFocus ==
  \/ Plug
  \/ Connect
  \/ StartTouch
  \/ EndTouch
  \/ \E t \in Tabs : CallStarted(t)
  \/ \E t \in Tabs : CallEnded(t)
  \/ \E t \in Tabs, v \in BOOLEAN : TabVisibility(t, v)
  \/ \E t \in Tabs : TabClosed(t)
  \/ \E t \in Tabs : TabRemoved(t)
  \/ \E enabled \in BOOLEAN : SetFocusTab(enabled)

SpecFocus == Init /\ [][NextFocus]_vars

\* the device coming and going with no HID event delivered: only the poll
\* of setInterval(checkDeviceStatus, 2000), which keeps running, and the
\* sleep()s of the connect animation, which expire
NextPolling ==
  \/ Plug
  \/ Unplug
  \/ Poll
  \/ Animation
  \/ StartTouch
  \/ EndTouch
  \/ CallStarted(MeetTab)

SpecPolling ==
  Init /\ [][NextPolling]_vars /\ WF_vars(Poll) /\ WF_vars(Animation)

\* the service worker restarting under one meeting tab, whose content
\* script keeps running: its checkCallState and checkMuteState intervals
\* send what they have to send
NextRestart ==
  \/ Restart
  \/ CallStarted(MeetTab)
  \/ CallEnded(MeetTab)
  \/ \E v \in Tri : PageMute(MeetTab, v)
  \/ \E v \in Tri : MuteReport(MeetTab, v)
  \/ ToggleMute
  \/ QueryStart
  \/ \E result \in Tri : QueryResult(MeetTab, result)

SpecRestart ==
  /\ Init /\ [][NextRestart]_vars
  /\ WF_vars(CallStarted(MeetTab))
  /\ WF_vars(\E v \in Tri : MuteReport(MeetTab, v))
  /\ WF_vars(QueryStart)
  /\ WF_vars(\E result \in Tri : QueryResult(MeetTab, result))

(***************************************************************************)
(* Properties                                                              *)
(***************************************************************************)
\* the byte setLed writes for a preset
LedValue(preset) == preset.color + preset.effect

\* the command sendMuteCommand sends to a Meet or Teams tab
Cmd(tab, mute) == [tab |-> tab, mute |-> mute, via |-> "script"]

AnimationRunning == SumOver(anim, 1..4) > 0

\* C1: in every reachable state, no active call implies that mute is None
\* (state.isMuted is null)
MuteNoneWithoutCall ==
  state.activeCallTabId = NoTab => state.isMuted = Null

\* C2: a step that sends a mute command leaves state.isMuted as it was, and
\* state.isMuted changes only in a step that applies a mute observation (a
\* report or a query result) or ends the call
CommandKeepsMute ==
  [][/\ last'.sent # <<>> => state'.isMuted = state.isMuted
     /\ state'.isMuted # state.isMuted =>
          last'.ev \in {"muteReport", "queryResult", "callEnded",
                        "tabRemoved", "tabUpdated"}]_vars

\* C2, reached: a release has just sent an unmute command and state.isMuted
\* still says muted
CommandSentMuteKept ==
  /\ last.ev = "touchEnd"
  /\ last.sent = <<Cmd(state.activeCallTabId, False)>>
  /\ state.isMuted = True

\* C3: whenever a call is active and mute is known, the value of mute was
\* observed (reported or queried) in the tab of the active call
MuteFromActiveSession ==
  (state.activeCallTabId # NoTab /\ state.isMuted # Null) =>
    muteSrc = state.activeCallTabId

\* C4: a call-start that arrives while a call is active is ignored: active
\* call, platform and mute stay as they were (first reporter wins)
FirstReporterWins ==
  [][(last'.ev = "callStarted" /\ state.activeCallTabId # NoTab) =>
       /\ state'.activeCallTabId = state.activeCallTabId
       /\ state'.activePlatform = state.activePlatform
       /\ state'.isMuted = state.isMuted]_vars

\* C5: whenever the device is connected and no connect animation is running,
\* the LED shows the preset the feedback mapping gives for the current state
FeedbackNeverStale ==
  (state.mutemeConnected /\ muteme.isConnected /\ plugged /\ ~AnimationRunning) =>
    led = LedValue(LedPresetFor(state))

IdleIsCyan ==
  (last.upd /\ state.mutemeConnected /\ state.activeCallTabId = NoTab) =>
    /\ led # LedValue(LED_PRESET.OFF)
    /\ led = LED_COLOR.CYAN + LED_EFFECT.SOLID

\* C8: in Smart mode, in a call and muted: the press sends nothing; a release
\* before the grace timer fired comes no later than 200 ms and sends exactly
\* one Toggle (unmute); the grace timer sends exactly one BeginTalk (unmute),
\* and the release after it comes no sooner than 200 ms and sends exactly one
\* EndTalk (mute), whatever mute says by then
SmartGrace ==
  state.touchMode = TOUCH_MODE.SMART =>
    /\ last.ev = "touchStart" => last.sent = <<>>
    /\ cycle = "tapped" =>
         /\ last.dur <= 200
         /\ state.isMuted = True
         /\ last.sent = <<Cmd(state.activeCallTabId, False)>>
    /\ cycle = "fired" /\ last.ev = "pttTimer" =>
         last.sent = <<Cmd(state.activeCallTabId, False)>>
    /\ cycle = "fired" /\ last.ev # "pttTimer" => last.sent = <<>>
    /\ cycle = "talked" =>
         /\ last.dur >= 200
         /\ last.sent = <<Cmd(state.activeCallTabId, True)>>

\* C8, reached: a Smart hold of 250 ms is released while mute still says
\* muted, and the release sent EndTalk
SmartHoldReleased ==
  /\ state.touchMode = TOUCH_MODE.SMART
  /\ cycle = "talked"
  /\ last.dur = 250
  /\ state.isMuted = True
  /\ last.sent = <<Cmd(state.activeCallTabId, True)>>

TapThreshold ==
  state.touchMode = TOUCH_MODE.TOGGLE =>
    /\ last.ev = "touchStart" => last.sent = <<>>
    /\ (last.ev = "touchEnd" /\ state.activeCallTabId # NoTab) =>
         last.sent = IF last.dur < 500
                     THEN <<Cmd(state.activeCallTabId, Not(state.isMuted))>>
                     ELSE <<>>

\* C10, reached: a release after 499 ms has just sent the Toggle
TapOf499 ==
  /\ state.touchMode = TOUCH_MODE.TOGGLE
  /\ last.ev = "touchEnd"
  /\ last.dur = 499
  /\ state.isMuted = True
  /\ last.sent = <<Cmd(state.activeCallTabId, False)>>

\* C11: an abandoned hold is discarded: when the device was disconnected
\* (by the HID event or by the poll) while the button was held, the release
\* report that follows the reconnect sends no command, in any touch mode
AbandonedHoldDiscarded ==
  cycle = "discarded" => last.sent = <<>>

\* C12: a BeginTalk command is only ever sent by the grace timer that the
\* press of the touch cycle still held armed (the one whose id
\* state.pttTimer holds), never by a timer armed by an earlier press
BeginTalkFromCurrentTimer ==
  [][(last'.ev = "pttTimer" /\ last'.sent # <<>>) =>
       state.pttTimer \in (TimerIds(timers) \ TimerIds(timers'))]_vars

\* C13: at most one grace timer is outstanding at any time, whatever
\* sequence of press and release reports the device delivers
OneGraceTimer ==
  Cardinality(timers) <= 1

\* C14: a mute command is idempotent at the page: a step that delivers a
\* command with desired value v to a tab whose page is already in state v
\* leaves the page in state v, on every platform
MuteCommandIdempotent ==
  [][(/\ last'.sent # <<>>
      /\ ~last'.failed
      /\ page[last'.sent[1].tab] = last'.sent[1].mute) =>
       page'[last'.sent[1].tab] = last'.sent[1].mute]_vars

\* C15: an ambiguous observation is no new information: a pushed report of
\* null for the active tab, and a query result of null, leave state.isMuted
\* at its prior value
AmbiguousObservationKeepsMute ==
  [][(\/ /\ last'.ev = "muteReport"
         /\ \E t \in Tabs : /\ obs'[t].isMuted = Null
                            /\ obs[t].isMuted # Null
                            /\ state.activeCallTabId = t
      \/ /\ last'.ev = "queryResult"
         /\ \E t \in Tabs : /\ queryRun'[t] < queryRun[t]
                            /\ page[t] \in {Null, Gone}) =>
       state'.isMuted = state.isMuted]_vars

\* C16: with no active call every gesture and every UI mute command is
\* dropped: nothing is sent and no delivery fails, no query is scheduled or
\* started, and the call and mute fields of state stay as they were
NoCallDropsCommands ==
  [][(/\ state.activeCallTabId = NoTab
      /\ last'.ev \in {"touchStart", "touchEnd", "pttTimer", "toggleMute", "setMute"}) =>
       /\ last'.sent = <<>>
       /\ ~last'.failed
       /\ queryWait' = queryWait
       /\ queryRun' = queryRun
       /\ state'.activeCallTabId = NoTab
       /\ state'.activePlatform = state.activePlatform
       /\ state'.isMuted = state.isMuted]_vars

\* C16, reached: a tap in Toggle mode was released with no call active, and
\* the release sent nothing and scheduled no query
TapWithoutCall ==
  /\ last.ev = "touchEnd"
  /\ last.dur < TapThresholdMs
  /\ state.touchMode = TOUCH_MODE.TOGGLE
  /\ state.activeCallTabId = NoTab
  /\ last.sent = <<>>
  /\ queryWait = 0

\* C17: a rejected delivery is swallowed: the step in which a delivery
\* fails made exactly one attempt, schedules no query, and leaves the active
\* call, its platform and mute as they were
DeliveryFailureSwallowed ==
  [][last'.failed =>
       /\ Len(last'.sent) = 1
       /\ queryWait' = queryWait
       /\ queryRun' = queryRun
       /\ state'.activeCallTabId = state.activeCallTabId
       /\ state'.activePlatform = state.activePlatform
       /\ state'.isMuted = state.isMuted]_vars

\* C17, reached: a command to the tab of the active call, which was closed,
\* has just been rejected, and the call is still the active one
DeliveryRejected ==
  /\ last.failed
  /\ state.activeCallTabId # NoTab
  /\ page[state.activeCallTabId] = Gone
  /\ last.sent = <<[tab |-> state.activeCallTabId,
                    mute |-> last.sent[1].mute, via |-> "script"]>>

\* C18: silent disappearance is detected by polling: right after a poll the
\* background either counts the device as disconnected or holds an opened
\* device handle; it does not stay connected to a device it cannot use
PollLeavesWorkingConnection ==
  (last.ev = "poll" /\ state.mutemeConnected) =>
    (muteme.isConnected /\ muteme.device /\ muteme.opened)

\* C19: when a paired device is available while the background counts it
\* as disconnected and no HID event is delivered, polling eventually
\* connects (state.mutemeConnected becomes true), unless the device is
\* pulled out again first
PollingEventuallyConnects ==
  (plugged /\ ~state.mutemeConnected) ~> (state.mutemeConnected \/ ~plugged)

\* C19, reached: a poll has just connected the device that was plugged in
PollConnected ==
  /\ last.ev = "poll"
  /\ plugged
  /\ state.mutemeConnected
  /\ muteme.isConnected /\ muteme.opened

\* C20: call presence is re-derived after a restart: when the service
\* worker has no active call while the content script of the meeting tab is
\* in a call, state.activeCallTabId eventually becomes that tab, unless the
\* call ends first
CallRederivedAfterRestart ==
  (obs[MeetTab].isInCall /\ state.activeCallTabId = NoTab) ~>
    (state.activeCallTabId = MeetTab \/ ~obs[MeetTab].isInCall)

\* C21: mute is eventually consistent with the call page: whenever the
\* content script of the active tab has reported what the page shows (muted
\* or unmuted) and no mute query is scheduled or running, state.isMuted
\* equals the mute state of the page
MuteConsistentWhenQuiet ==
  \A t \in Tabs :
    (/\ state.activeCallTabId = t
     /\ obs[t].isInCall
     /\ page[t] \in {True, False}
     /\ obs[t].isMuted = page[t]
     /\ queryWait = 0
     /\ SumOver(queryRun, Tabs) = 0) =>
      state.isMuted = page[t]

\* C22: the active call, its platform and mute are cleared by a call-end
\* report, a close or a navigation away of the tab of the active call, and
\* by nothing else; the same events of another tab change none of the three,
\* write neither LED nor icon and broadcast nothing
CallClearedExactly ==
  [][/\ last'.ev \in {"callEnded", "tabRemoved", "tabUpdated"} =>
          IF state.activeCallTabId = last'.tab
          THEN /\ state'.activeCallTabId = NoTab
               /\ state'.activePlatform = Null
               /\ state'.isMuted = Null
               /\ last'.bcast = <<[type |-> MESSAGE.CALL_ENDED,
                                   data |-> [tabId |-> last'.tab]]>>
          ELSE /\ state' = state
               /\ last'.bcast = <<>>
               /\ ~last'.upd
               /\ led' = led /\ icon' = icon /\ shown' = shown
     /\ (state.activeCallTabId # NoTab /\ state'.activeCallTabId = NoTab) =>
          /\ last'.ev \in {"callEnded", "tabRemoved", "tabUpdated"}
          /\ last'.tab = state.activeCallTabId]_vars

\* C22, reached: the tab of the active call has been closed, which cleared
\* the call, while the other tab is still in a call of its own
ActiveTabClosedCleared ==
  /\ last.ev = "tabRemoved"
  /\ last.bcast # <<>>
  /\ state.activeCallTabId = NoTab
  /\ state.activePlatform = Null
  /\ \E t \in Tabs : t # last.tab /\ obs[t].isInCall

\* C23: every disconnect of the device, by the HID event or found by the
\* poll, sets mutemeConnected to false, resets isHolding and pttActivated and
\* leaves no grace timer pending, and leaves the active call, its platform,
\* mute, the touch mode and focusTabOnPress as they were
DisconnectResetsHold ==
  [][(state.mutemeConnected /\ last'.ev \in {"hidDisconnect", "poll"}
      /\ ~state'.mutemeConnected) =>
       /\ ~state'.isHolding
       /\ ~state'.pttActivated
       /\ state'.pttTimer = 0
       /\ timers' = {}
       /\ state'.activeCallTabId = state.activeCallTabId
       /\ state'.activePlatform = state.activePlatform
       /\ state'.isMuted = state.isMuted
       /\ state'.touchMode = state.touchMode
       /\ state'.focusTabOnPress = state.focusTabOnPress]_vars

\* C24: on connect the LED starts the acknowledgment sequence with the
\* flash colour, and once no connect animation is running any more the LED
\* shows the feedback mapping of the state at that time, whatever was
\* handled while the animation ran
AnimationFallsBack ==
  (state.mutemeConnected /\ muteme.isConnected /\ muteme.opened) =>
    /\ last.ev \in {"connect", "poll"} /\ last.bcast # <<>> =>
         led = LED_COLOR.CYAN + LED_EFFECT.SOLID
    /\ last.ev = "animation" /\ ~AnimationRunning =>
         led = LedValue(LedPresetFor(state))

\* C24, reached: the animation has just finished after a call started, was
\* reported unmuted and the button was pressed while it ran, and the LED
\* shows Unmuted-pulsing-fast
AnimationEndedWhileHolding ==
  /\ last.ev = "animation"
  /\ ~AnimationRunning
  /\ state.mutemeConnected /\ muteme.opened
  /\ state.activeCallTabId # NoTab
  /\ state.isMuted = False
  /\ state.isHolding
  /\ led = LedValue(LED_PRESET.PUSH_TO_TALK_ACTIVE)

\* the icon state of the 4-state mapping for state st
IconFor(st) ==
  IF ~st.mutemeConnected THEN ICON_STATE.DISCONNECTED
  ELSE IF st.activeCallTabId = NoTab \/ st.isMuted = Null THEN ICON_STATE.CONNECTED
  ELSE IF st.isMuted = True THEN ICON_STATE.MUTED
  ELSE ICON_STATE.UNMUTED

\* C25: the icon is never left stale: whenever no icon update is still in
\* progress, the icon, badge and title displayed are those of the 4-state
\* mapping of the current state
IconNeverStale ==
  rendering = 0 => shown = IconFor(state)

\* C26: a button press brings the tab of the call to the foreground only
\* if focusTabOnPress is set, the tab is the tab of the active call and the
\* tab was hidden: a visible tab is not switched to, on any platform
FocusOnlyHiddenTab ==
  [][last'.focus # NoTab =>
       /\ last'.ev = "touchStart"
       /\ state.focusTabOnPress
       /\ state.activeCallTabId = last'.focus
       /\ ~visible[last'.focus]]_vars

\* C27: in Push-to-Talk mode releasing the button mutes: with a call active,
\* every release after which state.isMuted is not true has sent a mute
\* command, whether or not the hold had activated push-to-talk
PushToTalkReleaseMutes ==
  (/\ state.touchMode = TOUCH_MODE.PUSH_TO_TALK
   /\ last.ev = "touchEnd"
   /\ state.activeCallTabId # NoTab
   /\ state.isMuted # True) =>
     last.sent = <<Cmd(state.activeCallTabId, True)>>

\* a host without navigator.hid: what the user, the device, the pages and
\* the UI can still do while the service worker sits behind its init guard
NextNoHid ==
  \/ Plug
  \/ Unplug
  \/ \E t \in Tabs : CallStarted(t)
  \/ \E t \in Tabs : CallEnded(t)
  \/ \E t \in Tabs, v \in {True, False} : PageMute(t, v)
  \/ \E t \in Tabs, v \in Tri : MuteReport(t, v)
  \/ \E t \in Tabs : TabClosed(t)
  \/ \E t \in Tabs : TabRemoved(t)
  \/ ToggleMute
  \/ \E mode \in TouchModes : SetTouchMode(mode)
  \/ \E enabled \in BOOLEAN : SetFocusTab(enabled)
  \/ Restart

SpecNoHid == InitNoHid /\ [][NextNoHid]_vars

\* C28: if navigator.hid is absent the coordinator never starts: whatever
\* the device, the pages and the UI do, no handler runs (nothing is sent,
\* broadcast, focused, persisted or drawn), no timer, animation or query is
\* pending, no connection is opened and the state stays the initial one
NeverStartedWithoutHid ==
  ~hid =>
    /\ state = InitialState
    /\ muteme = InitialMuteMe
    /\ timers = {}
    /\ queryWait = 0
    /\ \A t \in Tabs : queryRun[t] = 0
    /\ \A pc \in 1..4 : anim[pc] = 0
    /\ led = NoLed
    /\ rendering = 0
    /\ shown = "default"
    /\ ~stored.set
    /\ last.sent = <<>>
    /\ last.bcast = <<>>
    /\ ~last.upd
    /\ last.focus = NoTab

\* the device is plugged in, the Meet page is in a call and the popup asks
\* for a toggle, on a host without navigator.hid
ToggleWithoutHid ==
  /\ ~hid
  /\ plugged
  /\ obs[MeetTab].isInCall
  /\ last.ev = "toggleMute"

\* C29: on every state transition (device connect/disconnect, call start or
\* end, mute observed, preference change) a message is broadcast whose
\* payload has the shape of the getPublicState() snapshot and equals the
\* state after the transition
BroadcastsSnapshot ==
  [][(/\ last'.ev \in {"connect", "hidDisconnect", "poll", "callStarted",
                       "callEnded", "tabRemoved", "tabUpdated", "muteReport",
                       "setTouchMode", "setFocusTab"}
      /\ getPublicState(state') # getPublicState(state)) =>
        \E i \in DOMAIN last'.bcast :
          last'.bcast[i].data = getPublicState(state')]_vars

\* the preferences: the popup changes them and the service worker is
\* restarted, with a device and a call so that the rest of the state is not
\* the initial one
NextPrefs ==
  \/ Plug
  \/ Connect
  \/ CallStarted(MeetTab)
  \/ \E v \in {True, False} : PageMute(MeetTab, v)
  \/ \E v \in Tri : MuteReport(MeetTab, v)
  \/ \E mode \in TouchModes : SetTouchMode(mode)
  \/ \E enabled \in BOOLEAN : SetFocusTab(enabled)
  \/ Restart

SpecPrefs == Init /\ [][NextPrefs]_vars

\* C30: SET_TOUCH_MODE and SET_FOCUS_TAB update the preference in memory,
\* persist both preferences (the mode also recomputes the LED) and leave the
\* call, the mute and the device connection alone; what is persisted
\* equals what is in memory; a restart restores exactly the persisted
\* values, and loading them touches nothing but the two preferences
PreferencesRoundTrip ==
  [][/\ last'.ev \in {"setTouchMode", "setFocusTab"} =>
          /\ stored' = [set |-> TRUE, touchMode |-> state'.touchMode,
                        focusTabOnPress |-> state'.focusTabOnPress]
          /\ state'.activeCallTabId = state.activeCallTabId
          /\ state'.activePlatform = state.activePlatform
          /\ state'.isMuted = state.isMuted
          /\ state'.mutemeConnected = state.mutemeConnected
     /\ last'.ev = "setTouchMode" =>
          /\ state'.focusTabOnPress = state.focusTabOnPress
          /\ (state.mutemeConnected /\ plugged) => last'.upd
     /\ last'.ev = "setFocusTab" => state'.touchMode = state.touchMode
     /\ (last'.ev = "restart" /\ stored.set) =>
          /\ stored' = stored
          /\ state'.touchMode = stored.touchMode
          /\ state'.focusTabOnPress = stored.focusTabOnPress
     /\ stored'.set =>
          /\ stored'.touchMode = state'.touchMode
          /\ stored'.focusTabOnPress = state'.focusTabOnPress
     /\ LET st == loadState(World).state
        IN /\ st.activeCallTabId = state.activeCallTabId
           /\ st.activePlatform = state.activePlatform
           /\ st.isMuted = state.isMuted
           /\ st.mutemeConnected = state.mutemeConnected]_vars

\* a restart has restored a touch mode and an auto-focus setting that are
\* not the defaults, with the device plugged in
PreferencesRestored ==
  /\ last.ev = "restart"
  /\ stored.set
  /\ state.touchMode = TOUCH_MODE.SMART
  /\ state.focusTabOnPress
  /\ state.mutemeConnected

\* C31: observation is idempotent: handleMuteStateChanged applied twice in
\* a row for the active tab with the same value v leaves isMuted = v after
\* each application, and the LED preset, the LED and the icon state after
\* the second application are those after the first
ObservationIdempotent ==
  state.activeCallTabId # NoTab =>
    \A v \in Tri :
      LET w1 == handleMuteStateChanged(World, state.activeCallTabId, v)
          w2 == handleMuteStateChanged(w1, state.activeCallTabId, v)
      IN /\ w1.state.isMuted = v
         /\ w2.state.isMuted = v
         /\ w2.state = w1.state
         /\ LedPresetFor(w2.state) = LedPresetFor(w1.state)
         /\ w2.led = w1.led
         /\ w2.icon = w1.icon

\* a report of the active tab has just changed the mute while the device is
\* connected and the button is held
ReportWhileHeld ==
  /\ last.ev = "muteReport"
  /\ last.tab = state.activeCallTabId
  /\ state.mutemeConnected
  /\ state.isHolding
  /\ state.isMuted = False
  /\ last.upd

\* the reports of both tabs, with a device and with restarts of the service
\* worker
NextReport ==
  \/ Plug
  \/ Connect
  \/ Restart
  \/ \E t \in Tabs : CallStarted(t)
  \/ \E t \in Tabs : CallEnded(t)
  \/ \E t \in Tabs, v \in Tri : PageMute(t, v)
  \/ \E t \in Tabs, v \in Tri : MuteReport(t, v)

SpecReport == Init /\ [][NextReport]_vars

\* C32: a mute report of a tab that is not the active call tab (another
\* tab, or any tab when no call is active) changes nothing: the state, the
\* LED and the icon are unchanged, and no LED write, command or broadcast
\* is produced
ForeignReportIgnored ==
  [][(last'.ev = "muteReport" /\ last'.tab # state.activeCallTabId) =>
       /\ state' = state
       /\ led' = led
       /\ icon' = icon
       /\ shown' = shown
       /\ rendering' = rendering
       /\ ~last'.upd
       /\ last'.sent = <<>>
       /\ last'.bcast = <<>>]_vars

\* with the device connected and a call active in one tab, the other tab
\* has just reported a mute value
ForeignReportArrived ==
  /\ last.ev = "muteReport"
  /\ state.mutemeConnected
  /\ state.activeCallTabId # NoTab
  /\ last.tab # state.activeCallTabId
  /\ obs[last.tab].isMuted # state.isMuted

\* C33: every unmute command the grace timer sent is followed by exactly
\* one mute command when the touch cycle ends: a release that finds
\* push-to-talk activated in a call sends the mute command and nothing else
TalkEndsWithMute ==
  [][(/\ last'.ev = "touchEnd"
      /\ state.pttActivated
      /\ state.activeCallTabId # NoTab) =>
        last'.sent = <<Cmd(state.activeCallTabId, True)>>]_vars

\* the connection of the device: connect() calls whose awaits interleave
\* with each other, with the HID disconnect event and with the poll
NextConnect ==
  \/ Plug
  \/ PermissionGranted
  \/ Unplug
  \/ ConnectCall
  \/ ConnectDevices
  \/ \E ok \in BOOLEAN : ConnectOpened(ok)
  \/ HidDisconnect
  \/ Poll
  \/ Animation

SpecConnect == Init /\ [][NextConnect]_vars

\* C34: the coordinator's mutemeConnected flag and the driver's isConnected
\* flag agree whenever no connect() call is in progress
ConnectedFlagsAgree ==
  connecting = NoConnect => state.mutemeConnected = muteme.isConnected

\* C35: each establishment of the device connection produces exactly one
\* onMutemeConnect transition: a step broadcasts DEVICE_CONNECTED and starts
\* a connect animation at most once, and only if it takes mutemeConnected
\* from false to true
OneConnectTransition ==
  [][LET n == Len(SelectSeq(last'.bcast,
                            LAMBDA m : m.type = MESSAGE.DEVICE_CONNECTED))
     IN /\ n <= 1
        /\ n = 1 => (~state.mutemeConnected /\ state'.mutemeConnected)
        /\ anim'[1] > anim[1] => (~state.mutemeConnected /\ state'.mutemeConnected)
    ]_vars

\* the LED: everything that writes to it, with the device coming and going
NextLed ==
  \/ Plug
  \/ Unplug
  \/ Connect
  \/ HidDisconnect
  \/ Poll
  \/ Animation
  \/ \E color \in {LED_COLOR.BLUE, LED_COLOR.WHITE} : SetLed(color, LED_EFFECT.SOLID)
  \/ CallStarted(MeetTab)
  \/ \E v \in {True, False} : PageMute(MeetTab, v)
  \/ \E v \in Tri : MuteReport(MeetTab, v)
  \/ \E mode \in TouchModes : SetTouchMode(mode)

SpecLed == Init /\ [][NextLed]_vars

\* C36: no LED report is written to the device while the driver is not
\* connected: a step in which updateLed, a step of the connect animation or
\* SET_LED wrote a report ends with the driver connected to an opened
\* device; a write that cannot be made changes nothing (the LED keeps its
\* value, and a SET_LED that wrote nothing leaves every variable but the
\* history as it was)
NoLedWriteUnlessConnected ==
  [][/\ last'.reports > 0 =>
          (muteme'.isConnected /\ muteme'.device /\ muteme'.opened /\ plugged')
     /\ last'.reports = 0 => led' = led
     /\ (last'.ev = "setLed" /\ last'.reports = 0) =>
          (state' = state /\ muteme' = muteme /\ anim' = anim /\ icon' = icon)
    ]_vars

\* a step of the connect animation has just run after the device was
\* disconnected in the middle of the animation, and wrote nothing
AnimationStepAfterDisconnect ==
  /\ last.ev = "animation"
  /\ ~muteme.isConnected
  /\ ~state.mutemeConnected
  /\ last.reports = 0

\* the observers of the two tabs: their checks run at any time, whether or
\* not the page changed, and the pages change their microphone button
NextObserver ==
  \/ \E t \in Tabs, newInCall \in BOOLEAN, pg \in Tri : ObserveCall(t, newInCall, pg)
  \/ \E t \in Tabs : ObserveMute(t)
  \/ \E t \in Tabs, v \in Tri : PageMute(t, v)
  \/ \E t \in Tabs : TabClosed(t)

SpecObserver == Init /\ [][NextObserver]_vars

\* C37: the observer of a tab sends a mute report only with a value that
\* differs from the value it holds as last sent; it sends CALL_STARTED only
\* when its last call message was not a CALL_STARTED and CALL_ENDED only
\* after a CALL_STARTED, so the two alternate beginning with CALL_STARTED;
\* at CALL_ENDED it forgets the mute value, so that a check in a call that
\* reads a determinable value while none was sent in this call reports it
ObserverReportsChanges ==
  [][LET t == last'.tab
         told == last'.told
         of(type) == SelectSeq(told, LAMBDA m : m.type = type)
     IN last'.ev \in {"observeCall", "observeMute"} =>
        /\ Len(of(MESSAGE.CALL_STARTED)) + Len(of(MESSAGE.CALL_ENDED)) <= 1
        /\ Len(of(MESSAGE.MUTE_STATE_CHANGED)) <= 1
        /\ of(MESSAGE.CALL_STARTED) # <<>> =>
             (~obs[t].isInCall /\ obs'[t].isInCall /\ told[1].type = MESSAGE.CALL_STARTED)
        /\ of(MESSAGE.CALL_ENDED) # <<>> =>
             (obs[t].isInCall /\ ~obs'[t].isInCall /\ obs'[t].isMuted = Null)
        /\ ~obs'[t].isInCall => obs'[t].isMuted = Null
        /\ of(MESSAGE.MUTE_STATE_CHANGED) # <<>> =>
             /\ obs'[t].isInCall
             /\ of(MESSAGE.MUTE_STATE_CHANGED)[1].isMuted = page'[t]
             /\ page'[t] # obs[t].isMuted
             /\ obs'[t].isMuted = page'[t]
        /\ of(MESSAGE.MUTE_STATE_CHANGED) = <<>> => obs'[t].isMuted = obs[t].isMuted
                                                      \/ ~obs'[t].isInCall
        /\ (/\ last'.ev = "observeMute" \/ of(MESSAGE.CALL_STARTED) # <<>>
            /\ page'[t] \in {True, False}
            /\ obs[t].isMuted = Null) =>
             of(MESSAGE.MUTE_STATE_CHANGED) # <<>>
    ]_vars

\* the observer of a tab has just found its page in a call with the
\* microphone muted: it sent CALL_STARTED and then the report "muted", which
\* the coordinator took
FirstStateOfCallReported ==
  /\ last.ev = "observeCall"
  /\ Len(last.told) = 2
  /\ last.told[1].type = MESSAGE.CALL_STARTED
  /\ last.told[2].isMuted = True
  /\ state.isMuted = True
  /\ state.activeCallTabId = last.tab

\* C38: when the permission page reports that the device permission was
\* granted, handleMessage recognises the message and calls connect(): with
\* the driver not connected, a connect() call is in progress after the step
PermissionGrantedConnects ==
  [][(last'.ev = "permissionGranted" /\ ~muteme.isConnected) =>
       connecting'.devices = connecting.devices + 1]_vars

\* the popup: it is opened and closed, its messages and responses arrive
\* in any order relative to each other, while the device connects, a call
\* starts and ends, the page reports its mute and the touch mode is changed
NextPopup ==
  \/ PopupOpen
  \/ PopupClose
  \/ PopupReceive
  \/ PopupRefresh
  \/ PopupReply
  \/ Plug
  \/ Connect
  \/ CallStarted(MeetTab)
  \/ CallEnded(MeetTab)
  \/ \E v \in {True, False} : PageMute(MeetTab, v)
  \/ \E v \in {True, False} : MuteReport(MeetTab, v)
  \/ \E mode \in TouchModes : SetTouchMode(mode)

SpecPopup == Init /\ [][NextPopup]_vars

====
